---- MODULE Spec2Model ----
(***************************************************************************)
(* A model of lineedit (src/lineedit/__init__.py): the key decoder         *)
(* (Key.__init__, parse_esc, esc2str) reading bytes from an input stream,  *)
(* and the Editor.edit session loop with its handlers.                     *)
(*                                                                         *)
(* Text is a sequence of one-character strings.  A Python value that may   *)
(* be None is a sequence of length at most one: None is <<>>, and a value  *)
(* v that is present is <<v>>.                                             *)
(***************************************************************************)
EXTENDS Integers, Sequences, FiniteSets, TLC

(* ---------------------------------------------------------------- bounds *)

\* Largest max given to Editor(), largest initial text, and the cap on the
\* text length when the editor is unbounded (maxlen < 0).
MaxLen == 3

\* Longest escape-sequence body (parameter + intermediate + final bytes) the
\* terminal sends when the decoder is driven byte by byte.
MaxBody == 4

\* How many reads at end of input one key decode is followed through.
MaxEofReads == 2

\* The calls of setup_raw() a program makes are at most this many.
MaxSetups == 1

(* ------------------------------------------------------- python values *)

None == <<>>

Some(v) == <<v>>

\* x or y
Or(x, y) == IF x = None \/ x = Some(0) THEN y ELSE x

\* s + t for a string s and a string t of length at most one
Concat(s, c) == IF c = "" THEN s ELSE Append(s, c)

\* s.find(sub) for sub of length at most one: the lowest index, -1 if absent;
\* the empty string is found at index 0 of every string.
Find(s, sub) ==
  IF sub = "" THEN 0
  ELSE IF \E i \in 1..Len(s) : s[i] = sub
       THEN (CHOOSE i \in 1..Len(s) : s[i] = sub /\ \A j \in 1..(i-1) : s[j] # sub) - 1
       ELSE -1

(* ------------------------------------------------------- key constants *)

\* UNKNOWN as a code of its own, 0
UNKNOWN_zero == Some(0)

UNKNOWN == None
UP == 1
DOWN == 2
RIGHT == 3
LEFT == 4
HOME == 5
END == 6
INSERT == 7
DELETE == 8
PAGE_UP == 9
PAGE_DOWN == 10
CTRL_LEFT == 11
CTRL_RIGHT == 12

\* SEQ with the codes of "C" and "D" exchanged
SEQ_swapped ==
  (<<"A">> :> UP) @@ (<<"B">> :> DOWN) @@ (<<"C">> :> LEFT) @@ (<<"D">> :> RIGHT) @@
  (<<"H">> :> HOME) @@ (<<"F">> :> END) @@
  (<<"2", "~">> :> INSERT) @@ (<<"3", "~">> :> DELETE) @@
  (<<"5", "~">> :> PAGE_UP) @@ (<<"6", "~">> :> PAGE_DOWN) @@
  (<<"1", ";", "5", "C">> :> CTRL_RIGHT) @@ (<<"1", ";", "5", "D">> :> CTRL_LEFT)

SEQ ==
  (<<"A">> :> UP) @@ (<<"B">> :> DOWN) @@ (<<"C">> :> RIGHT) @@ (<<"D">> :> LEFT) @@
  (<<"H">> :> HOME) @@ (<<"F">> :> END) @@
  (<<"2", "~">> :> INSERT) @@ (<<"3", "~">> :> DELETE) @@
  (<<"5", "~">> :> PAGE_UP) @@ (<<"6", "~">> :> PAGE_DOWN) @@
  (<<"1", ";", "5", "C">> :> CTRL_RIGHT) @@ (<<"1", ";", "5", "D">> :> CTRL_LEFT)

\* The byte 0x1b and the control bytes the editor binds, by name.
ESC == "ESC"
DEL == "^?"
CTRL_H == "^H"
CTRL_K == "^K"
CTRL_W == "^W"
CTRL_A == "^A"
\* The byte 0x60, which a string of this notation cannot hold.
GRAVE == "GRAVE"

CS_PARAMETER ==
  <<"0", "1", "2", "3", "4", "5", "6", "7", "8", "9", ":", ";", "<", "=", ">", "?">>

CS_INTERMEDIATE ==
  <<"\"", "#", "$", "%", "&", "'", "(", ")", "*", "+", ",", "-", ".", "/">>

CS_FINAL ==
  <<"@", "A", "B", "C", "D", "E", "F", "G", "H", "I", "J", "K", "L", "M", "N", "O",
    "P", "Q", "R", "S", "T", "U", "V", "W", "X", "Y", "Z", "[", "\\", "]", "^", "_",
    GRAVE, "a", "b", "c", "d", "e", "f", "g", "h", "i", "j", "k", "l", "m", "n", "o",
    "p", "q", "r", "s", "t", "u", "v", "w", "x", "y", "z", "{", "|", "}", "~">>

\* SEQ.get(seq): seq is what esc2str returned, None or a body.
SEQ_get(seq) ==
  IF seq # None /\ seq[1] \in DOMAIN SEQ THEN Some(SEQ[seq[1]]) ELSE None

\* parse_esc, given what esc2str returned
parse_esc(seq) == Or(SEQ_get(seq), UNKNOWN)

(* ---------------------------------------------------------------- state *)

VARIABLES
  fd,        \* the bytes typed and not yet read
  closed,    \* the input stream has ended: a read of the empty stream returns ""
  pc,        \* where the program is
  key,       \* the Key being built or last built: [char, cmd]
  buf,       \* esc2str: buf
  next,      \* esc2str: next
  consumed,  \* the bytes read so far for the current key
  eofReads,  \* the reads that returned "" for the current key
  exc,       \* the exception that ended the program, "" if none
  pre,       \* Editor.pre
  post,      \* Editor.post
  maxlen,    \* Editor.maxlen
  running,   \* Editor.running
  result,    \* what edit() returned, None while it runs
  op,        \* the handler the last key was dispatched to, "" before the first
  old,       \* [pre, post] before that handler ran
  erases,    \* the erase arguments of the show() calls made for the last key
  inserted,  \* the characters given to handle_char so far, while only it has run
  pure,      \* the text was empty at entry and only handle_char has run
  prev,      \* the key before the last, when it went to left or home: the
             \* handler and [pre, post] before it ran
  run,       \* the text before the cursor keys dispatched in a row, None after
             \* any other key
  attrs,     \* the attribute block of the terminal, as tcgetattr returns it
  atexit,    \* the functions registered with atexit, in the order registered
  original,  \* the attribute block before the first setup_raw(), None before it
  lastMode,  \* the last call of raw_mode: its argument and the block it read
  cells,     \* the row of the terminal the cursor is in, blank where it ends
  cursor,    \* the column of the cursor, counted from 0
  anchor     \* the column ESC [ s saved

decoder == <<key, buf, next, consumed, eofReads>>
stream == <<fd, closed>>
editor == <<pre, post, maxlen, running, result>>
history == <<op, old, erases, inserted, pure, prev, run>>
terminal == <<attrs, atexit, original, lastMode>>
screen == <<cells, cursor, anchor>>
vars == <<fd, closed, pc, key, buf, next, consumed, eofReads, exc,
          pre, post, maxlen, running, result, op, old, erases, inserted, pure,
          prev, run, attrs, atexit, original, lastMode, cells, cursor, anchor>>

NoKey == [char |-> None, cmd |-> None]

NoPrev == [op |-> "", pre |-> <<>>, post |-> <<>>]

(* --------------------------------------------------------- input stream *)

\* fd.read(1) returns: it blocks while nothing is typed and the stream is open.
CanRead == fd # <<>> \/ (closed /\ eofReads < MaxEofReads)

\* fd.read(1)
fd_read == IF fd # <<>> THEN Head(fd) ELSE ""

Consume(b) ==
  /\ fd' = IF fd # <<>> THEN Tail(fd) ELSE fd
  /\ consumed' = Concat(consumed, b)
  /\ eofReads' = IF b = "" THEN eofReads + 1 ELSE eofReads

(* -------------------------------------------------------- terminal mode *)

\* termios.ECHO and termios.ICANON, the bits of lflag raw_mode changes, and
\* termios.ISIG, a bit of lflag it does not name.
ECHO == "ECHO"
ICANON == "ICANON"
ISIG == "ISIG"

\* A terminal as a login shell leaves it: echo and canonical input are on.
CookedAttrs ==
  [iflag |-> {"ICRNL"}, oflag |-> {"OPOST"}, cflag |-> {"CS8"},
   lflag |-> {ECHO, ICANON, ISIG}, ispeed |-> "B38400", ospeed |-> "B38400",
   cc |-> [VINTR |-> "^C", VEOF |-> "^D"]]

\* The attribute blocks a terminal is found with.
AttrBlocks ==
  [iflag : SUBSET {"ICRNL"}, oflag : SUBSET {"OPOST"}, cflag : {{"CS8"}, {"CS7"}},
   lflag : SUBSET {ECHO, ICANON, ISIG}, ispeed : {"B38400"},
   ospeed : {"B9600", "B38400"},
   cc : {[VINTR |-> "^C", VEOF |-> "^D"], [VINTR |-> "^G", VEOF |-> "^D"]}]

\* raw_mode writing local flags that hold nothing but the two bits
raw_mode_fresh_lflag(raw, a) ==
  [a EXCEPT !.lflag = IF raw THEN {} ELSE {ECHO, ICANON}]

\* raw_mode(raw, fd): the block tcsetattr is given when tcgetattr returned a
raw_mode(raw, a) ==
  LET lflag == IF raw
               THEN (a.lflag \ {ECHO}) \ {ICANON}
               ELSE (a.lflag \cup {ECHO}) \cup {ICANON}
  IN [iflag |-> a.iflag, oflag |-> a.oflag, cflag |-> a.cflag, lflag |-> lflag,
      ispeed |-> a.ispeed, ospeed |-> a.ospeed, cc |-> a.cc]

\* The program calls raw_mode(raw) itself, before any setup_raw().
RawMode ==
  /\ pc = "init"
  /\ atexit = <<>>
  /\ \E raw \in BOOLEAN :
       /\ attrs' = raw_mode(raw, attrs)
       /\ lastMode' = Some([raw |-> raw, before |-> attrs])
  /\ UNCHANGED <<stream, pc, decoder, exc, editor, history, atexit, original, screen>>

\* setup_raw that registers the restoration and leaves the mode as it is
SetupRaw_registers_only ==
  /\ pc = "init"
  /\ Len(atexit) < MaxSetups
  /\ atexit' = Append(atexit, "raw_mode(False)")
  /\ original' = IF original = None THEN Some(attrs) ELSE original
  /\ UNCHANGED <<stream, pc, decoder, exc, editor, history, attrs, lastMode, screen>>

\* setup_raw(fd): atexit.register(lambda: raw_mode(False, fd)); raw_mode(True, fd)
SetupRaw ==
  /\ pc = "init"
  /\ Len(atexit) < MaxSetups
  /\ atexit' = Append(atexit, "raw_mode(False)")
  /\ attrs' = raw_mode(TRUE, attrs)
  /\ lastMode' = Some([raw |-> TRUE, before |-> attrs])
  /\ original' = IF original = None THEN Some(attrs) ELSE original
  /\ UNCHANGED <<stream, pc, decoder, exc, editor, history, screen>>

\* The interpreter runs the n functions registered with atexit, each of them
\* raw_mode(False).
RECURSIVE run_exitfuncs(_, _)
run_exitfuncs(a, n) == IF n = 0 THEN a ELSE raw_mode(FALSE, run_exitfuncs(a, n - 1))

\* The interpreter exits: the program ended before or after edit(), or an
\* exception left it.  The functions registered with atexit run.
Exit ==
  /\ pc \in {"init", "done", "error"}
  /\ pc' = "exited"
  /\ attrs' = run_exitfuncs(attrs, Len(atexit))
  /\ lastMode' = IF atexit = <<>> THEN lastMode
                 ELSE Some([raw |-> FALSE, before |-> run_exitfuncs(attrs, Len(atexit) - 1)])
  /\ atexit' = <<>>
  /\ UNCHANGED <<stream, decoder, exc, editor, history, original, screen>>

\* The process is killed by a signal: nothing registered with atexit runs, and
\* what the process held in memory is gone.
Kill ==
  /\ pc \notin {"exited", "killed"}
  /\ pc' = "killed"
  /\ key' = NoKey /\ buf' = <<>> /\ next' = "" /\ consumed' = <<>> /\ eofReads' = 0
  /\ exc' = "" /\ pre' = <<>> /\ post' = <<>> /\ running' = FALSE /\ result' = None
  /\ op' = "" /\ old' = [pre |-> <<>>, post |-> <<>>] /\ erases' = <<>>
  /\ inserted' = <<>> /\ pure' = FALSE /\ prev' = NoPrev /\ run' = None
  /\ atexit' = <<>>
  /\ UNCHANGED <<stream, maxlen, attrs, original, lastMode, screen>>

\* setup_raw() has been called once, on a terminal in cooked mode.
SetupDone ==
  /\ attrs = raw_mode(TRUE, CookedAttrs)
  /\ atexit = <<"raw_mode(False)">>
  /\ original = Some(CookedAttrs)
  /\ lastMode = Some([raw |-> TRUE, before |-> CookedAttrs])

(* ------------------------------------------------------- terminal row *)

\* The terminal shows what is emitted in a row of cells without end, blank
\* where nothing was written; a row is kept without the blanks at its end.
Blank == " "

\* What the terminal shows before edit(): a prompt, the cursor behind it.
Prompt == <<">">>

(* -------------------------------------------------------------- decoder *)

\* Key.__init__: key = fd.read(1); a literal key is complete, ESC goes on to
\* parse_esc.
KeyInit ==
  /\ pc = "read"
  /\ fd # <<>> \/ closed
  /\ LET b == fd_read IN
       /\ fd' = IF fd # <<>> THEN Tail(fd) ELSE fd
       /\ consumed' = Concat(<<>>, b)
       /\ eofReads' = IF b = "" THEN 1 ELSE 0
       /\ buf' = <<>>
       /\ next' = ""
       /\ IF b # ESC
          THEN key' = [char |-> Some(b), cmd |-> None] /\ pc' = "key"
          ELSE key' = [char |-> None, cmd |-> None] /\ pc' = "esc2str"
  /\ UNCHANGED <<closed, exc, editor, history, terminal, screen>>

\* esc2str without the test of the introducer
Esc2strIntro_unchecked ==
  /\ pc = "esc2str"
  /\ CanRead
  /\ LET b == fd_read IN
       /\ Consume(b)
       /\ key' = key /\ next' = b /\ pc' = "body"
  /\ UNCHANGED <<closed, buf, exc, editor, history, terminal, screen>>

\* esc2str: next = fd.read(1); if next != '[': return None
Esc2strIntro ==
  /\ pc = "esc2str"
  /\ CanRead
  /\ LET b == fd_read IN
       /\ Consume(b)
       /\ IF b # "["
          THEN key' = [key EXCEPT !.cmd = parse_esc(None)] /\ next' = "" /\ pc' = "key"
          ELSE key' = key /\ next' = b /\ pc' = "body"
  /\ UNCHANGED <<closed, buf, exc, editor, history, terminal, screen>>

\* esc2str: buf = ""; next = fd.read(1)
Esc2strBody ==
  /\ pc = "body"
  /\ CanRead
  /\ LET b == fd_read IN
       /\ Consume(b)
       /\ buf' = <<>>
       /\ next' = b
       /\ pc' = "param"
  /\ UNCHANGED <<closed, key, exc, editor, history, terminal, screen>>

\* esc2str: while CS_PARAMETER.find(next)>=0: buf += next; next = fd.read(1)
ParamLoop ==
  /\ pc = "param"
  /\ IF Find(CS_PARAMETER, next) >= 0
     THEN /\ CanRead
          /\ LET b == fd_read IN
               /\ Consume(b)
               /\ buf' = Concat(buf, next)
               /\ next' = b
               /\ pc' = "param"
     ELSE /\ pc' = "interm"
          /\ UNCHANGED <<fd, buf, next, consumed, eofReads>>
  /\ UNCHANGED <<closed, key, exc, editor, history, terminal, screen>>

\* esc2str: while CS_INTERMEDIATE.find(next)>=0: buf += next; next = fd.read(1)
IntermLoop ==
  /\ pc = "interm"
  /\ IF Find(CS_INTERMEDIATE, next) >= 0
     THEN /\ CanRead
          /\ LET b == fd_read IN
               /\ Consume(b)
               /\ buf' = Concat(buf, next)
               /\ next' = b
               /\ pc' = "interm"
     ELSE /\ pc' = "final"
          /\ UNCHANGED <<fd, buf, next, consumed, eofReads>>
  /\ UNCHANGED <<closed, key, exc, editor, history, terminal, screen>>

\* esc2str returning buf without the final byte it read
Esc2strFinal_drops_final ==
  /\ pc = "final"
  /\ IF Find(CS_FINAL, next) >= 0
     THEN /\ key' = [key EXCEPT !.cmd = parse_esc(Some(buf))]
          /\ pc' = "key"
          /\ exc' = exc
     ELSE /\ pc' = "error"
          /\ exc' = "TypeError: exceptions must derive from BaseException"
          /\ key' = key
  /\ buf' = <<>>
  /\ next' = ""
  /\ UNCHANGED <<fd, closed, consumed, eofReads, editor, history, terminal, screen>>

\* esc2str: if CS_FINAL.find(next)>=0: buf += next; return buf
\* (buf and next are locals, gone when esc2str is left)
\* and then raise f"Malformed ESC Sequence '{buf}'": raising a str is a
\* TypeError, which leaves esc2str, parse_esc, Key.__init__ and their caller.
Esc2strFinal ==
  /\ pc = "final"
  /\ IF Find(CS_FINAL, next) >= 0
     THEN /\ key' = [key EXCEPT !.cmd = parse_esc(Some(Concat(buf, next)))]
          /\ pc' = "key"
          /\ exc' = exc
     ELSE /\ pc' = "error"
          /\ exc' = "TypeError: exceptions must derive from BaseException"
          /\ key' = key
  /\ buf' = <<>>
  /\ next' = ""
  /\ UNCHANGED <<fd, closed, consumed, eofReads, editor, history, terminal, screen>>

(* ------------------------------------------- the decoder, byte by byte *)

\* The bytes the terminal sends when the decoder is driven byte by byte.
Bytes ==
  {"a", "\n", CTRL_A, ESC, "[", "1", "2", "3", "5", "6", ";", "$",
   "A", "B", "C", "D", "F", "H", "~"}

IsRunByte(b) == Find(CS_PARAMETER, b) >= 0 \/ Find(CS_INTERMEDIATE, b) >= 0

\* The record of the last key (the Key, the bytes read for it, the handler it
\* went to) is dropped when input for the next read arrives.
ForgetLastKey ==
  IF pc = "read"
  THEN /\ key' = NoKey
       /\ consumed' = <<>>
       /\ op' = ""
       /\ old' = [pre |-> <<>>, post |-> <<>>]
       /\ erases' = <<>>
       /\ prev' = IF op \in {"left", "home"}
                  THEN [op |-> op, pre |-> old.pre, post |-> old.post]
                  ELSE NoPrev
  ELSE UNCHANGED <<key, consumed, op, old, erases, prev>>

\* The terminal sends one byte to a reader that waits for it.
TypeByte ==
  /\ fd = <<>>
  /\ ~closed
  /\ pc \in {"read", "esc2str", "body", "param", "interm"}
  /\ \E b \in Bytes :
       /\ (pc \in {"body", "param", "interm"} /\ IsRunByte(b)) => Len(consumed) <= MaxBody
       /\ fd' = <<b>>
  /\ ForgetLastKey
  /\ UNCHANGED <<closed, pc, buf, next, eofReads, exc, editor, inserted, pure, run, terminal, screen>>

\* The input stream ends.
Close ==
  /\ fd = <<>>
  /\ ~closed
  /\ pc \in {"read", "esc2str", "body", "param", "interm"}
  /\ closed' = TRUE
  /\ ForgetLastKey
  /\ UNCHANGED <<fd, pc, buf, next, eofReads, exc, editor, inserted, pure, run, terminal, screen>>

\* read(fd), called again by a program that took the last Key
read ==
  /\ pc = "key"
  /\ pc' = "read"
  /\ UNCHANGED <<stream, decoder, exc, editor, history, terminal, screen>>

InitKey ==
  /\ fd = <<>>
  /\ closed = FALSE
  /\ pc = "read"
  /\ key = NoKey
  /\ buf = <<>>
  /\ next = ""
  /\ consumed = <<>>
  /\ eofReads = 0
  /\ exc = ""
  /\ pre = <<>>
  /\ post = <<>>
  /\ maxlen = -1
  /\ running = FALSE
  /\ result = None
  /\ op = ""
  /\ old = [pre |-> <<>>, post |-> <<>>]
  /\ erases = <<>>
  /\ inserted = <<>>
  /\ pure = FALSE
  /\ prev = NoPrev
  /\ run = None
  /\ SetupDone
  /\ cells = Prompt
  /\ cursor = Len(Prompt)
  /\ anchor = 0

NextKey ==
  \/ TypeByte
  \/ Close
  \/ KeyInit
  \/ Esc2strIntro
  \/ Esc2strBody
  \/ ParamLoop
  \/ IntermLoop
  \/ Esc2strFinal
  \/ read

SpecKey == InitKey /\ [][NextKey]_vars

(* --------------------------------------------------------------- editor *)

\* The characters the pattern \w matches, among ASCII.
WordChars ==
  {"0", "1", "2", "3", "4", "5", "6", "7", "8", "9", "_",
   "A", "B", "C", "D", "E", "F", "G", "H", "I", "J", "K", "L", "M", "N", "O",
   "P", "Q", "R", "S", "T", "U", "V", "W", "X", "Y", "Z",
   "a", "b", "c", "d", "e", "f", "g", "h", "i", "j", "k", "l", "m", "n", "o",
   "p", "q", "r", "s", "t", "u", "v", "w", "x", "y", "z"}

\* The pattern \b matches at position i of s (0 <= i <= len(s)): exactly one of
\* the characters before and after the position is a word character.
MatchesB(s, i) ==
  (i > 0 /\ s[i] \in WordChars) # (i < Len(s) /\ s[i + 1] \in WordChars)

RECURSIVE finditer_from(_, _)
finditer_from(s, i) ==
  IF i > Len(s) THEN <<>>
  ELSE (IF MatchesB(s, i) THEN <<i>> ELSE <<>>) \o finditer_from(s, i + 1)

\* [m.start() for m in re.finditer(r"\b", s)], scanning from the left
boundaries(s) == finditer_from(s, 0)

\* chr(32) .. chr(126)
ASCII == <<" ", "!">> \o CS_INTERMEDIATE \o CS_PARAMETER \o CS_FINAL

\* ord(c) for a one-character string c
ord(c) ==
  CASE c = CTRL_A -> 1
    [] c = CTRL_H -> 8
    [] c = "\t" -> 9
    [] c = "\n" -> 10
    [] c = CTRL_K -> 11
    [] c = CTRL_W -> 23
    [] c = ESC -> 27
    [] c = DEL -> 127
    [] OTHER -> 32 + Find(ASCII, c)

\* Editor.__init__: self.maxlen = max or shutil.get_terminal_size().columns-1
Editor_maxlen(max, columns) == Or(max, Some(columns - 1))[1]

CellAt(row, c) == IF c + 1 <= Len(row) THEN row[c + 1] ELSE Blank

RECURSIVE Strip(_)
Strip(row) ==
  IF row # <<>> /\ row[Len(row)] = Blank THEN Strip(SubSeq(row, 1, Len(row) - 1)) ELSE row

Put(row, c, ch) ==
  LET n == IF Len(row) > c + 1 THEN Len(row) ELSE c + 1
  IN Strip([i \in 1..n |-> IF i = c + 1 THEN ch ELSE CellAt(row, i - 1)])

\* emit(string) of printable characters: each goes into the cell under the
\* cursor, and the cursor moves one cell right.
RECURSIVE emit(_, _)
emit(t, string) ==
  IF string = <<>> THEN t
  ELSE emit([t EXCEPT !.cells = Put(t.cells, t.cursor, Head(string)),
                      !.cursor = t.cursor + 1],
            Tail(string))

\* emit(ESC_SAVE_CURSOR)
emit_SAVE_CURSOR(t) == [t EXCEPT !.anchor = t.cursor]

\* emit(ESC_RESTORE_CURSOR)
emit_RESTORE_CURSOR(t) == [t EXCEPT !.cursor = t.anchor]

\* emit(f"{ESC}[{back}D"): the cursor moves back cells to the left, and stops
\* at the first column.
emit_CUB(t, back) == [t EXCEPT !.cursor = IF t.cursor > back THEN t.cursor - back ELSE 0]

\* ' '*erase
Blanks(erase) == [i \in 1..erase |-> Blank]

\* The editor as a handler sees it; erases collects the show() calls, and tty
\* is the terminal the editor emits to.
self ==
  [pre |-> pre, post |-> post, running |-> running, erases |-> <<>>,
   tty |-> [cells |-> cells, cursor |-> cursor, anchor |-> anchor]]

\* Editor.show
show(s, erase) ==
  LET restored == emit_RESTORE_CURSOR(s.tty)
      written == emit(emit(emit(restored, s.pre), s.post), Blanks(erase))
      back == Len(s.post) + erase
  IN [s EXCEPT !.erases = Append(@, erase),
               !.tty = IF back > 0 THEN emit_CUB(written, back) ELSE written]

\* handle_char putting the character in front of pre
handle_char_prepends(s, char) ==
  IF maxlen < 0 \/ Len(s.pre \o s.post) < maxlen
  THEN show([s EXCEPT !.pre = <<char>> \o s.pre], 0)
  ELSE s

\* handle_char testing <= maxlen
handle_char_off_by_one(s, char) ==
  IF maxlen < 0 \/ Len(s.pre \o s.post) <= maxlen
  THEN show([s EXCEPT !.pre = s.pre \o <<char>>], 0)
  ELSE s

handle_char(s, char) ==
  IF maxlen < 0 \/ Len(s.pre \o s.post) < maxlen
  THEN show([s EXCEPT !.pre = s.pre \o <<char>>], 0)
  ELSE s

left(s) ==
  IF s.pre = <<>> THEN s
  ELSE [s EXCEPT !.post = <<s.pre[Len(s.pre)]>> \o s.post,
                 !.pre = SubSeq(s.pre, 1, Len(s.pre) - 1)]

\* right taking the last character of post
right_takes_last(s) ==
  IF s.post = <<>> THEN s
  ELSE [s EXCEPT !.pre = s.pre \o <<s.post[Len(s.post)]>>,
                 !.post = SubSeq(s.post, 1, Len(s.post) - 1)]

right(s) ==
  IF s.post = <<>> THEN s
  ELSE [s EXCEPT !.pre = s.pre \o <<s.post[1]>>,
                 !.post = SubSeq(s.post, 2, Len(s.post))]

\* home putting pre behind post
home_appends(s) == [s EXCEPT !.post = s.post \o s.pre, !.pre = <<>>]

home(s) == [s EXCEPT !.post = s.pre \o s.post, !.pre = <<>>]

end(s) == [s EXCEPT !.pre = s.pre \o s.post, !.post = <<>>]

delete(s) ==
  show(IF Len(s.post) > 0 THEN [s EXCEPT !.post = SubSeq(s.post, 2, Len(s.post))] ELSE s, 1)

\* delete_word without the test of len(boundaries), cutting at 0 then
delete_word_unguarded(s) ==
  LET bs == boundaries(s.pre)
      start == IF Len(bs) > 1 THEN bs[Len(bs) - 1] ELSE 0
      kill == Len(s.pre) - start
  IN show([s EXCEPT !.pre = SubSeq(s.pre, 1, start)], kill)

\* delete_word cutting at boundaries[-1]
delete_word_last_boundary(s) ==
  LET bs == boundaries(s.pre) IN
    IF Len(bs) > 1
    THEN LET start == bs[Len(bs)]
             kill == Len(s.pre) - start
         IN show([s EXCEPT !.pre = SubSeq(s.pre, 1, start)], kill)
    ELSE s

delete_word(s) ==
  LET bs == boundaries(s.pre) IN
    IF Len(bs) > 1
    THEN LET start == bs[Len(bs) - 1]
             kill == Len(s.pre) - start
         IN show([s EXCEPT !.pre = SubSeq(s.pre, 1, start)], kill)
    ELSE s

\* word_left dropping the word it steps over
word_left_drops(s) ==
  LET bs == boundaries(s.pre) IN
    IF Len(bs) > 1
    THEN show([s EXCEPT !.pre = SubSeq(s.pre, 1, bs[Len(bs) - 1])], 0)
    ELSE s

word_left(s) ==
  LET bs == boundaries(s.pre) IN
    IF Len(bs) > 1
    THEN LET start == bs[Len(bs) - 1]
         IN show([s EXCEPT !.post = SubSeq(s.pre, start + 1, Len(s.pre)) \o s.post,
                           !.pre = SubSeq(s.pre, 1, start)], 0)
    ELSE s

word_right(s) ==
  LET bs == boundaries(s.post) IN
    IF Len(bs) > 1
    THEN LET start == bs[2]
         IN show([s EXCEPT !.pre = s.pre \o SubSeq(s.post, 1, start),
                           !.post = SubSeq(s.post, start + 1, Len(s.post))], 0)
    ELSE s

tab(s) == s

enter(s) == [s EXCEPT !.running = FALSE]

backspace(s) ==
  show(IF Len(s.pre) > 0 THEN [s EXCEPT !.pre = SubSeq(s.pre, 1, Len(s.pre) - 1)] ELSE s, 1)

\* kill_post showing without erasing
kill_post_no_erase(s) == show([s EXCEPT !.post = <<>>], 0)

kill_post(s) ==
  LET l == Len(s.post) IN show([s EXCEPT !.post = <<>>], l)

\* key_cmds with the tab key bound to enter
key_cmds_tab_enters ==
  ("\n" :> "enter") @@ ("\t" :> "enter") @@ (DEL :> "backspace") @@
  (CTRL_H :> "backspace") @@ (CTRL_K :> "kill_post") @@ (CTRL_W :> "delete_word")

key_cmds ==
  ("\n" :> "enter") @@ ("\t" :> "tab") @@ (DEL :> "backspace") @@
  (CTRL_H :> "backspace") @@ (CTRL_K :> "kill_post") @@ (CTRL_W :> "delete_word")

\* esc_cmds with the UP key bound to home
esc_cmds_up_is_home ==
  (UP :> "home") @@
  (LEFT :> "left") @@ (RIGHT :> "right") @@ (HOME :> "home") @@ (END :> "end") @@
  (DELETE :> "delete") @@ (CTRL_LEFT :> "word_left") @@ (CTRL_RIGHT :> "word_right")

esc_cmds ==
  (LEFT :> "left") @@ (RIGHT :> "right") @@ (HOME :> "home") @@ (END :> "end") @@
  (DELETE :> "delete") @@ (CTRL_LEFT :> "word_left") @@ (CTRL_RIGHT :> "word_right")

\* Editor.edit, the body of the loop: what the key is dispatched to.  "pass" is
\* a key that nothing is bound to; ord("") is a TypeError.
cmdfunc ==
  IF key.char # None
  THEN IF key.char[1] \in DOMAIN key_cmds THEN key_cmds[key.char[1]]
       ELSE IF key.char[1] = "" THEN "TypeError"
       ELSE IF ord(key.char[1]) >= 32 THEN "handle_char"
       ELSE "pass"
  ELSE IF key.cmd # None
       THEN IF key.cmd[1] \in DOMAIN esc_cmds THEN esc_cmds[key.cmd[1]] ELSE "pass"
       ELSE "pass"

\* The handlers that only move the cursor.
CursorKeys == {"left", "right", "home", "end", "word_left", "word_right"}

\* The handler named h has run and left the editor as s: the loop tests
\* self.running, and edit returns self.pre + self.post when it is false.
Dispatched(h, s) ==
  /\ pre' = s.pre
  /\ post' = s.post
  /\ running' = s.running
  /\ erases' = s.erases
  /\ op' = h
  /\ old' = [pre |-> pre, post |-> post]
  /\ pure' = (pure /\ h = "handle_char")
  /\ inserted' = IF pure /\ h = "handle_char" THEN inserted \o key.char ELSE <<>>
  /\ prev' = prev
  /\ cells' = s.tty.cells
  /\ cursor' = s.tty.cursor
  /\ anchor' = s.tty.anchor
  /\ run' = IF h \notin CursorKeys THEN None
             ELSE IF run # None THEN run
             ELSE Some(pre \o post)
  /\ IF s.running
     THEN pc' = "read" /\ result' = None
     ELSE pc' = "done" /\ result' = Some(s.pre \o s.post)
  /\ UNCHANGED <<stream, decoder, exc, maxlen, terminal>>

Enter == pc = "key" /\ cmdfunc = "enter" /\ Dispatched("enter", enter(self))

Tab == pc = "key" /\ cmdfunc = "tab" /\ Dispatched("tab", tab(self))

Backspace == pc = "key" /\ cmdfunc = "backspace" /\ Dispatched("backspace", backspace(self))

KillPost == pc = "key" /\ cmdfunc = "kill_post" /\ Dispatched("kill_post", kill_post(self))

DeleteWord ==
  pc = "key" /\ cmdfunc = "delete_word" /\ Dispatched("delete_word", delete_word(self))

HandleChar ==
  pc = "key" /\ cmdfunc = "handle_char"
  /\ Dispatched("handle_char", handle_char(self, key.char[1]))

\* a key bound in esc_cmds: cmdfunc(); self.show()
Left == pc = "key" /\ cmdfunc = "left" /\ Dispatched("left", show(left(self), 0))

Right == pc = "key" /\ cmdfunc = "right" /\ Dispatched("right", show(right(self), 0))

Home == pc = "key" /\ cmdfunc = "home" /\ Dispatched("home", show(home(self), 0))

End == pc = "key" /\ cmdfunc = "end" /\ Dispatched("end", show(end(self), 0))

Delete == pc = "key" /\ cmdfunc = "delete" /\ Dispatched("delete", show(delete(self), 0))

WordLeft ==
  pc = "key" /\ cmdfunc = "word_left" /\ Dispatched("word_left", show(word_left(self), 0))

WordRight ==
  pc = "key" /\ cmdfunc = "word_right" /\ Dispatched("word_right", show(word_right(self), 0))

\* a key nothing is bound to: the loop goes on to the next read
Pass == pc = "key" /\ cmdfunc = "pass" /\ Dispatched("pass", self)

\* ord(key.char) of the empty string read at end of input raises TypeError,
\* which leaves edit
OrdError ==
  /\ pc = "key"
  /\ cmdfunc = "TypeError"
  /\ pc' = "error"
  /\ exc' = "TypeError: ord() expected a character, but string of length 0 found"
  /\ UNCHANGED <<stream, decoder, editor, history, terminal, screen>>

(* ---------------------------------------------------- the edit session *)

\* The characters of the texts edit() is entered with and of the keys typed.
TextChars == {"a", " "}

RECURSIVE TextsOf(_)
TextsOf(n) ==
  IF n = 0 THEN {<<>>}
  ELSE {<<>>} \cup {<<c>> \o t : c \in TextChars, t \in TextsOf(n - 1)}

\* max as given to Editor(): left out (None), or an integer
MaxArgs == {None} \cup {Some(n) : n \in (-1)..MaxLen}

\* shutil.get_terminal_size().columns
Columns == {1, MaxLen + 1}

CSI(body) == <<ESC, "[">> \o body

\* What the terminal sends for one key press.
Keystrokes ==
  {<<c>> : c \in TextChars} \cup
  {<<"\n">>, <<"\t">>, <<DEL>>, <<CTRL_H>>, <<CTRL_K>>, <<CTRL_W>>, <<CTRL_A>>} \cup
  {CSI(<<"D">>), CSI(<<"C">>), CSI(<<"H">>), CSI(<<"F">>), CSI(<<"3", "~">>),
   CSI(<<"1", ";", "5", "D">>), CSI(<<"1", ";", "5", "C">>),
   CSI(<<"A">>), CSI(<<"B">>), CSI(<<"5", "~">>), CSI(<<"6", "~">>), CSI(<<"2", "~">>),
   CSI(<<"$", "a">>), <<ESC, "O">>, CSI(<<"1", CTRL_A>>)}

\* The terminal sends the bytes of one key press to the session waiting for a
\* key.
TypeKey ==
  /\ pc = "read"
  /\ fd = <<>>
  /\ ~closed
  /\ \E ks \in Keystrokes :
       /\ (Len(ks) = 1 /\ ks[1] \in TextChars) =>
            /\ maxlen >= 0 \/ Len(pre) + Len(post) < MaxLen
            /\ Len(inserted) <= MaxLen
       /\ fd' = ks
  /\ ForgetLastKey
  /\ UNCHANGED <<closed, pc, buf, next, eofReads, exc, editor, inserted, pure, run, terminal, screen>>

\* Editor.edit, up to the loop: self.pre = text; self.post = post;
\* emit(ESC_SAVE_CURSOR); self.show(); self.running = True
Edit ==
  /\ pc = "init"
  /\ \E text \in TextsOf(MaxLen), post0 \in TextsOf(MaxLen) :
       /\ Len(text) + Len(post0) <= MaxLen
       /\ pre' = text
       /\ post' = post0
       /\ pure' = (text \o post0 = <<>>)
       /\ LET s == show([self EXCEPT !.pre = text, !.post = post0,
                                     !.tty = emit_SAVE_CURSOR(self.tty)], 0)
          IN /\ erases' = s.erases
             /\ cells' = s.tty.cells
             /\ cursor' = s.tty.cursor
             /\ anchor' = s.tty.anchor
  /\ running' = TRUE
  /\ pc' = "read"
  /\ UNCHANGED <<stream, decoder, exc, maxlen, result, op, old, inserted, prev, run, terminal>>

\* The program has started and nothing has been read or shown but the prompt.
Started ==
  /\ fd = <<>>
  /\ closed = FALSE
  /\ pc = "init"
  /\ key = NoKey
  /\ buf = <<>>
  /\ next = ""
  /\ consumed = <<>>
  /\ eofReads = 0
  /\ exc = ""
  /\ pre = <<>>
  /\ post = <<>>
  /\ running = FALSE
  /\ result = None
  /\ op = ""
  /\ old = [pre |-> <<>>, post |-> <<>>]
  /\ erases = <<>>
  /\ inserted = <<>>
  /\ pure = FALSE
  /\ prev = NoPrev
  /\ run = None
  /\ cells = Prompt
  /\ cursor = Len(Prompt)
  /\ anchor = 0

\* An Editor has been constructed: Editor.__init__ set maxlen.  setup_raw()
\* has been called, so that each key press arrives when it is made.
Init ==
  /\ Started
  /\ \E max \in MaxArgs, columns \in Columns : maxlen = Editor_maxlen(max, columns)
  /\ SetupDone

Next ==
  \/ Edit
  \/ TypeKey
  \/ Close
  \/ KeyInit
  \/ Esc2strIntro
  \/ Esc2strBody
  \/ ParamLoop
  \/ IntermLoop
  \/ Esc2strFinal
  \/ Enter
  \/ Tab
  \/ Backspace
  \/ KillPost
  \/ DeleteWord
  \/ HandleChar
  \/ Left
  \/ Right
  \/ Home
  \/ End
  \/ Delete
  \/ WordLeft
  \/ WordRight
  \/ Pass
  \/ OrdError

Spec == Init /\ [][Next]_vars

(* ----------------------------------------- the terminal mode on its own *)

\* A program that only sets the terminal mode and exits, on any terminal.
InitTerm ==
  /\ Started
  /\ maxlen = Editor_maxlen(None, MaxLen + 1)
  /\ attrs \in AttrBlocks
  /\ atexit = <<>>
  /\ original = None
  /\ lastMode = None

NextTerm ==
  \/ RawMode
  \/ SetupRaw
  \/ Exit
  \/ Kill

SpecTerm == InitTerm /\ [][NextTerm]_vars

(* --------------------------------------------- the process and its end *)

\* A program that may call setup_raw(), then runs one edit session, on a
\* terminal in cooked mode.
InitProc ==
  /\ Started
  /\ maxlen = Editor_maxlen(None, MaxLen + 1)
  /\ attrs = CookedAttrs
  /\ atexit = <<>>
  /\ original = None
  /\ lastMode = None

NextProc ==
  \/ SetupRaw
  \/ Exit
  \/ Kill
  \/ Edit
  \/ TypeKey
  \/ Close
  \/ KeyInit
  \/ Esc2strIntro
  \/ Esc2strBody
  \/ ParamLoop
  \/ IntermLoop
  \/ Esc2strFinal
  \/ Enter
  \/ Tab
  \/ Backspace
  \/ KillPost
  \/ DeleteWord
  \/ HandleChar
  \/ Left
  \/ Right
  \/ Home
  \/ End
  \/ Delete
  \/ WordLeft
  \/ WordRight
  \/ Pass
  \/ OrdError

SpecProc == InitProc /\ [][NextProc]_vars

(* ---------------------------------------------------------------- claims *)

Range(s) == {s[i] : i \in 1..Len(s)}

\* The word boundaries of s as a set: the positions 0..len(s) where a word
\* character stands on exactly one side (nothing stands outside the string).
WordAt(s, i) == i \in 1..Len(s) /\ s[i] \in WordChars
BoundarySet(s) == {i \in 0..Len(s) : WordAt(s, i) # WordAt(s, i + 1)}
SecondToLast(s) ==
  CHOOSE i \in BoundarySet(s) : Cardinality({j \in BoundarySet(s) : j > i}) = 1

\* The bytes read for the current key are ESC '[' and then at least one more.
IsCsi == Len(consumed) >= 3 /\ consumed[1] = ESC /\ consumed[2] = "["
Body == SubSeq(consumed, 3, Len(consumed))

\* C1: the session leaves the loop only when the newline literal is dispatched.
\* Dispatching any key other than '\n' (a character, a command code, or a key
\* with neither) goes back to reading with running still true and nothing
\* returned; dispatching '\n' ends the session, and edit returns pre + post as
\* they are at that moment; and nothing else makes edit return.  (The empty
\* string read at end of input is no key: ord("") raises.)
C1_LeavesOnlyOnNewline ==
  [][ /\ (pc = "key" /\ key.char # Some("\n") /\ key.char # Some(""))
           => (pc' = "read" /\ running' /\ result' = None)
      /\ (pc = "key" /\ key.char = Some("\n"))
           => (pc' = "done" /\ ~running' /\ result' = Some(pre \o post)
               /\ pre' = pre /\ post' = post)
      /\ (pc # "done" /\ pc' = "done") => (pc = "key" /\ key.char = Some("\n"))
      /\ (result' # None) => (pc' = "done")
    ]_vars

C1_Witness ==
  /\ pc = "done"
  /\ op = "enter"
  /\ pre # <<>> /\ post # <<>>
  /\ result = Some(pre \o post)

\* C2: handle_char(c) below capacity appends c to pre and leaves post alone;
\* and while the text was empty at entry and only handle_char has run, with no
\* more calls than maxlen allows, pre + post is the characters inserted, in
\* order, and as long as their number.
C2_InsertAppends ==
  /\ (op = "handle_char" /\ (maxlen < 0 \/ Len(old.pre) + Len(old.post) < maxlen))
       => (pre = old.pre \o key.char /\ post = old.post)
  /\ (pure /\ (maxlen < 0 \/ Len(inserted) <= maxlen))
       => (pre \o post = inserted /\ Len(pre) + Len(post) = Len(inserted))

C2_Witness ==
  /\ pure
  /\ op = "handle_char"
  /\ inserted = <<"a", " ">>
  /\ pre = <<"a", " ">>
  /\ post = <<>>

\* C3: with maxlen >= 0 and the text exactly maxlen long, handle_char changes
\* neither pre nor post, raises nothing, and the session goes on reading.
C3_FullIsNoOp ==
  (op = "handle_char" /\ maxlen >= 0 /\ Len(old.pre) + Len(old.post) = maxlen)
    => (pre = old.pre /\ post = old.post /\ exc = "" /\ running /\ pc = "read"
        /\ erases = <<>>)

C3_Witness ==
  /\ op = "handle_char"
  /\ maxlen >= 1
  /\ Len(old.pre) + Len(old.post) = maxlen
  /\ pre = old.pre /\ post = old.post
  /\ pc = "read"

\* C4, as claimed: whenever maxlen >= 0, in every state of an edit session, the
\* entry state included, len(pre) + len(post) <= maxlen.
C4_WithinMaxlen ==
  (pc # "init" /\ maxlen >= 0) => Len(pre) + Len(post) <= maxlen

C6_MalformedTerminates ==
  [][ (pc \in {"param", "interm", "final"}
       /\ (next = "" \/ (pc = "final" /\ next \notin Range(CS_FINAL))))
        => (/\ pc' \in {"interm", "final", "error"}
            /\ eofReads' = eofReads
            /\ consumed' = consumed)
    ]_vars

\* The table of escape bodies, as the decoding contract lists it.
C7_Table(body) ==
  CASE body = <<"A">> -> Some(UP)
    [] body = <<"B">> -> Some(DOWN)
    [] body = <<"C">> -> Some(RIGHT)
    [] body = <<"D">> -> Some(LEFT)
    [] body = <<"H">> -> Some(HOME)
    [] body = <<"F">> -> Some(END)
    [] body = <<"2", "~">> -> Some(INSERT)
    [] body = <<"3", "~">> -> Some(DELETE)
    [] body = <<"5", "~">> -> Some(PAGE_UP)
    [] body = <<"6", "~">> -> Some(PAGE_DOWN)
    [] body = <<"1", ";", "5", "C">> -> Some(CTRL_RIGHT)
    [] body = <<"1", ";", "5", "D">> -> Some(CTRL_LEFT)
    [] OTHER -> UNKNOWN

\* parameter bytes, then intermediate bytes, then one final byte
C7_WellFormed(body) ==
  /\ body # <<>>
  /\ body[Len(body)] \in Range(CS_FINAL)
  /\ \E p \in 0..(Len(body) - 1) :
       /\ \A i \in 1..p : body[i] \in Range(CS_PARAMETER)
       /\ \A i \in (p + 1)..(Len(body) - 1) : body[i] \in Range(CS_INTERMEDIATE)

\* C7: what a returned Key holds.  A first byte other than ESC gives that byte
\* as the character and no command; ESC '[' and a body gives no character and
\* the command the table names for the body, UNKNOWN for every other body,
\* and the bodies that end in the error are not well formed.
C7_Decoding ==
  /\ (pc = "key" /\ consumed # <<>> /\ consumed[1] # ESC)
       => key = [char |-> Some(consumed[1]), cmd |-> None]
  /\ (pc = "key" /\ IsCsi)
       => (key.char = None /\ key.cmd = C7_Table(Body) /\ C7_WellFormed(Body) /\ exc = "")
  /\ (pc = "error") => (IsCsi /\ ~C7_WellFormed(Body))

C7_Witness ==
  /\ pc = "key"
  /\ consumed = <<ESC, "[", "1", ";", "5", "C">>
  /\ key = [char |-> None, cmd |-> Some(CTRL_RIGHT)]

\* C8, as claimed: every returned Key has exactly one of char and cmd present.
C8_ExactlyOne ==
  (pc = "key") => ((key.char # None) # (key.cmd # None))

\* C8, amended: every returned Key has at most one of char and cmd present:
\* char exactly when the first byte was not ESC, cmd (one of the twelve codes)
\* exactly when the body is in the table; a Key from any other escape sequence
\* has cmd = UNKNOWN = None, so neither is present.
C8_AtMostOne ==
  (pc = "key") =>
    /\ ~(key.char # None /\ key.cmd # None)
    /\ (key.char # None) <=> (consumed = <<>> \/ consumed[1] # ESC)
    /\ (key.cmd # None) <=> (IsCsi /\ C7_Table(Body) # None)
    /\ (key.cmd # None) => (key.cmd[1] \in 1..12)

C8_Witness ==
  /\ pc = "key"
  /\ consumed = <<ESC, "[", "$", "a">>
  /\ key.char = None
  /\ key.cmd = None

\* s has fewer than two word boundaries, or is one run of word characters.
C9_FewOrSingleRun(s) ==
  Cardinality(BoundarySet(s)) < 2 \/ Range(s) \subseteq WordChars

\* C9, as claimed: delete_word and word_left (inspecting pre) and word_right
\* (inspecting post) change nothing when the inspected string has fewer than
\* two word boundaries, the empty string and a single run of word characters
\* being such strings.
C9_NoOpSingleRun ==
  /\ (op \in {"delete_word", "word_left"} /\ C9_FewOrSingleRun(old.pre))
       => (pre = old.pre /\ post = old.post)
  /\ (op = "word_right" /\ C9_FewOrSingleRun(old.post))
       => (pre = old.pre /\ post = old.post)

\* C9, amended: they change nothing when the inspected string has fewer than
\* two word boundaries, which is when it holds no word character (a single
\* run of word characters has two boundaries, its start and its end).
C9_NoOpFewBoundaries ==
  /\ (op \in {"delete_word", "word_left"} /\ Cardinality(BoundarySet(old.pre)) < 2)
       => (pre = old.pre /\ post = old.post)
  /\ (op = "word_right" /\ Cardinality(BoundarySet(old.post)) < 2)
       => (pre = old.pre /\ post = old.post)
  /\ (op \in {"delete_word", "word_left"})
       => (Cardinality(BoundarySet(old.pre)) < 2 <=> Range(old.pre) \cap WordChars = {})
  /\ (op = "word_right")
       => (Cardinality(BoundarySet(old.post)) < 2 <=> Range(old.post) \cap WordChars = {})

C9_Witness ==
  /\ op = "delete_word"
  /\ old.pre = <<" ", " ">>
  /\ pre = old.pre
  /\ post = old.post

C11_LeftThenRight ==
  (prev.op = "left" /\ op = "right" /\ prev.pre # <<>>) =>
     /\ old.pre \o old.post = prev.pre \o prev.post
     /\ Len(old.pre) = Len(prev.pre) - 1
     /\ pre = prev.pre
     /\ post = prev.post

\* LEFT then RIGHT with characters on both sides of the cursor
C11_Witness ==
  /\ prev.op = "left" /\ op = "right"
  /\ prev.pre # <<>> /\ prev.post # <<>>
  /\ prev.pre[Len(prev.pre)] # prev.post[Len(prev.post)]

\* C12: when the HOME key and then the END key are dispatched, pre is the pre
\* and post of before the HOME key put together, and post is empty.
C12_HomeThenEnd ==
  (prev.op = "home" /\ op = "end") =>
     /\ old.pre = <<>>
     /\ old.post = prev.pre \o prev.post
     /\ pre = prev.pre \o prev.post
     /\ post = <<>>

\* HOME then END with different characters on the two sides of the cursor
C12_Witness ==
  /\ prev.op = "home" /\ op = "end"
  /\ prev.pre # <<>> /\ prev.post # <<>>
  /\ prev.pre \o prev.post # prev.post \o prev.pre

HasEchoAndIcanon == ECHO \in attrs.lflag /\ ICANON \in attrs.lflag
HasNeitherEchoNorIcanon == ECHO \notin attrs.lflag /\ ICANON \notin attrs.lflag

\* C13: when setup_raw() was called and the interpreter has exited, so that the
\* restoration it registered has run, the attribute block is the one the
\* terminal had before setup_raw().
C13_RestoresOriginal ==
  (pc = "exited" /\ original # None) => attrs = original[1]

\* C14: what a call of raw_mode wrote differs from what it read in nothing but
\* the ECHO and ICANON bits of lflag, which are cleared for raw = True and set
\* for raw = False.
C14_OnlyEchoAndIcanon ==
  lastMode # None =>
    LET before == lastMode[1].before IN
      /\ attrs.iflag = before.iflag
      /\ attrs.oflag = before.oflag
      /\ attrs.cflag = before.cflag
      /\ attrs.ispeed = before.ispeed
      /\ attrs.ospeed = before.ospeed
      /\ attrs.cc = before.cc
      /\ attrs.lflag \ {ECHO, ICANON} = before.lflag \ {ECHO, ICANON}
      /\ IF lastMode[1].raw THEN HasNeitherEchoNorIcanon ELSE HasEchoAndIcanon

\* raw_mode(False) on a terminal that had one of the two bits, a third bit of
\* lflag, and flags and speeds other than those of a cooked terminal
C14_Witness ==
  /\ lastMode # None
  /\ ~lastMode[1].raw
  /\ lastMode[1].before.lflag = {ICANON, ISIG}
  /\ lastMode[1].before.iflag = {}
  /\ lastMode[1].before.ospeed # CookedAttrs.ospeed
  /\ lastMode[1].before.cc # CookedAttrs.cc
  /\ attrs # lastMode[1].before

\* edit() is waiting for a byte of a key.
Waiting == pc \in {"read", "esc2str", "body", "param", "interm"} /\ fd = <<>>

C16_ScreenShowsText ==
  pc \in {"read", "done"} =>
    LET text == pre \o post IN
      /\ \A i \in 0..(Len(cells) + Len(text)) :
           CellAt(cells, anchor + i) = IF i < Len(text) THEN text[i + 1] ELSE Blank
      /\ cursor = anchor + Len(pre)
      /\ anchor = Len(Prompt)
      /\ SubSeq(cells, 1, anchor) = Prompt

\* ^K has cut a post of two characters or more behind a non-empty pre
C16_Witness ==
  /\ pc = "read"
  /\ op = "kill_post"
  /\ Len(old.post) >= 2
  /\ pre # <<>>

\* C17: backspace and delete call show with 1 when they removed a character
\* and with 0 when they did not; kill_post calls it with the length post had.
C17_ReportsVacated ==
  /\ op = "backspace" => erases = <<IF old.pre # <<>> THEN 1 ELSE 0>>
  /\ op = "delete" => erases = <<IF old.post # <<>> THEN 1 ELSE 0, 0>>
  /\ op = "kill_post" => erases = <<Len(old.post)>>

\* The keys nothing is bound to: the codes UP, DOWN, PAGE_UP, PAGE_DOWN, INSERT
\* and UNKNOWN, the tab, and the characters below 32 that key_cmds lacks.
Unbound(k) ==
  IF k.char = None
  THEN k.cmd \in {Some(UP), Some(DOWN), Some(PAGE_UP), Some(PAGE_DOWN), Some(INSERT), UNKNOWN}
  ELSE /\ k.char[1] # ""
       /\ \/ k.char[1] = "\t"
          \/ ord(k.char[1]) < 32 /\ k.char[1] \notin DOMAIN key_cmds

\* C18: the step that dispatches a key nothing is bound to changes neither pre
\* nor post nor running, raises nothing, and leads to the next read.
C18_UnboundIgnored ==
  [][(pc = "key" /\ Unbound(key)) =>
       /\ pc' = "read"
       /\ pre' = pre /\ post' = post /\ running' = running
       /\ running'
       /\ exc' = "" /\ result' = None]_vars

\* the PAGE_DOWN key has been dispatched with text on both sides of the cursor
C18_Witness ==
  /\ op = "pass"
  /\ key.cmd = Some(PAGE_DOWN)
  /\ pre # <<>> /\ post # <<>>
  /\ pc = "read"

C20_MovesKeepText ==
  /\ op \in CursorKeys => pre \o post = old.pre \o old.post
  /\ run # None => pre \o post = run[1]
  /\ (op \in CursorKeys /\ pc = "read") => run # None

\* HOME and then CTRL-RIGHT, which have both moved the cursor
C20_Witness ==
  /\ prev.op = "home"
  /\ prev.pre # <<>>
  /\ op = "word_right"
  /\ pre # old.pre
  /\ post # <<>>

====
